---- MODULE Spec2Model ----
(***************************************************************************)
(* Shopping list kept as one CSV file on Google Drive (src/app.py).        *)
(*                                                                         *)
(* Every browser session runs the Streamlit script from the top on each    *)
(* interaction: load_data() downloads and parses the whole file, then the  *)
(* Add Item handler, the store tabs and the toggle / delete handlers run   *)
(* on the table held in memory; a handler that changes the table uploads   *)
(* the whole table and calls st.rerun().  A script run reads the drive     *)
(* once (Load) and writes it at most once (the handlers), so a run is two  *)
(* atomic steps and the steps of different sessions interleave.            *)
(*                                                                         *)
(* Texts are modelled by value on a finite alphabet of item names; the     *)
(* CSV writer and reader are modelled by what pandas does on them:         *)
(* to_csv writes every cell as text, read_csv infers the type of a column  *)
(* from all of its cells (a column of integer literals becomes int64).     *)
(***************************************************************************)
EXTENDS Integers, Sequences, FiniteSets, TLC

\* ------------------------------------------------------------------ bounds
\* At most MaxClock records are ever created (datetime.now() ticks once per
\* accepted add), so a table never has more than MaxClock rows.
MaxClock == 2
\* Tables given to the store listing have at most MaxListRows rows.
MaxListRows == 3
\* A call to Drive fails at most MaxFailures times in a row before it works.
MaxFailures == 2

\* ------------------------------------------------------------------ config
CATEGORIES == <<"Vegetables", "Beverages", "Meat/Dairy", "Frozen", "Dry Goods">>
STORES == <<"Costco", "Trader Joe's", "Whole Foods", "Other">>
default_cols == <<"timestamp", "item", "purchased", "category", "store">>

\* Python's None (an unset selectbox, a missing file id is NoFile).
None == "None"
NoFile == 0

Sessions == {"A", "B"}
\* What the add form is given when one session runs alone: a store or none,
\* a category or none, and what the user types into the text input.
StoreChoices == {"Costco", "Trader Joe's", None}
CategoryChoices == {"Vegetables", "Frozen", None}
RawItems == {"", " ", "milk", " milk ", "7", "07"}
\* What it is given when two sessions run side by side.
SharedStores == {"Costco", "Trader Joe's"}
SharedCategories == {"Vegetables"}
SharedItems == {"milk", "eggs"}
\* Query parameter values: absent, a non-digit string, or the decimal text of
\* a number (the number stands for its text).
NoParam == -1
NonDigit == -2
QueryValues == {NoParam, NonDigit} \cup (0..MaxClock)

\* ------------------------------------------------------------------ texts
\* str.strip() on the alphabet.
Strip(raw) ==
    CASE raw = " " -> ""
      [] raw = " milk " -> "milk"
      [] OTHER -> raw

\* pandas.read_csv type inference on the alphabet: the integer literals and
\* the text to_csv writes for the integer they denote.
IsIntText(t) == t \in {"7", "07"}
IntText(t) == "7"

\* A cell of the item column in memory: a Python str or a numpy int64, with
\* the text to_csv writes for it.
StrCell(t) == [k |-> "str", v |-> t]
IntCell(t) == [k |-> "int", v |-> IntText(t)]

\* The dtype read_csv gives the item column: int64 when every cell is an
\* integer literal, object (str) otherwise; an empty column is object.
ItemDtype(rows) ==
    IF Len(rows) > 0 /\ \A i \in 1..Len(rows) : IsIntText(rows[i].item)
    THEN "int64" ELSE "object"

ParseItem(dtype, t) == IF dtype = "int64" THEN IntCell(t) ELSE StrCell(t)

\* ------------------------------------------------------------------ csv
\* A file's content: unparseable (an empty or damaged file), or a header
\* line with the five columns followed by rows of texts.
Corrupt == [ok |-> FALSE, rows |-> <<>>]
HeaderOnly == [ok |-> TRUE, rows |-> <<>>]

BoolText(b) == IF b THEN "True" ELSE "False"

\* df.to_csv(index=False): every row in order, the index is not written.
to_csv(d) ==
    [ok |-> TRUE,
     rows |-> [i \in 1..Len(d) |->
                 [timestamp |-> d[i].timestamp,
                  item |-> d[i].item.v,
                  purchased |-> BoolText(d[i].purchased),
                  category |-> d[i].category,
                  store |-> d[i].store]]]

\* pd.read_csv, with the fallback of load_data_from_drive for content that
\* does not parse, and the astype(bool) of load_data.
read_csv(content) ==
    IF ~content.ok THEN <<>>
    ELSE LET rows == content.rows
             dtype == ItemDtype(rows)
         IN [i \in 1..Len(rows) |->
               [timestamp |-> rows[i].timestamp,
                item |-> ParseItem(dtype, rows[i].item),
                purchased |-> (rows[i].purchased = "True"),
                category |-> rows[i].category,
                store |-> rows[i].store]]

\* ------------------------------------------------------------------ drive
\* The folder holds the files named SHOPPING_FILE_NAME, in the order
\* files().list returns them; a file id is its position.
find_file_id(drv) == IF Len(drv) > 0 THEN 1 ELSE NoFile

\* A load whose except branch returns the empty table without the id of
\* the file it downloaded.
load_data_from_drive_ExceptDropsId(drv) ==
    LET id == find_file_id(drv)
    IN IF id = NoFile
       THEN [pair |-> FALSE, df |-> <<>>, file_id |-> NoFile]
       ELSE [pair |-> TRUE, df |-> read_csv(drv[id]),
             file_id |-> IF drv[id].ok THEN id ELSE NoFile]

\* What load_data_from_drive returns: the bare DataFrame when the file is
\* missing, the pair (df, file_id) otherwise.
load_data_from_drive(drv) ==
    LET id == find_file_id(drv)
    IN IF id = NoFile
       THEN [pair |-> FALSE, df |-> <<>>, file_id |-> NoFile]
       ELSE [pair |-> TRUE, df |-> read_csv(drv[id]), file_id |-> id]

\* The number of values "df, file_id = ..." gets to unpack: two from a pair,
\* the column labels when the right-hand side is a DataFrame.
UnpackCount(ret) == IF ret.pair THEN 2 ELSE Len(default_cols)

\* load_data: raises (ValueError) when the unpacking does not find two
\* values, otherwise the table and the file id to keep in the session.
load_data(drv) ==
    LET ret == load_data_from_drive(drv)
    IN IF UnpackCount(ret) # 2
       THEN [raised |-> TRUE, df |-> <<>>, file_id |-> NoFile]
       ELSE [raised |-> FALSE, df |-> ret.df, file_id |-> ret.file_id]

\* A save that always creates a file, as if the id were never passed on.
save_data_to_drive_AlwaysCreate(drv, d, id) ==
    [drive |-> Append(drv, to_csv(d)), new_id |-> Len(drv) + 1]

\* save_data_to_drive: overwrite the file of the given id, or create a new
\* file in the folder when there is no id.
save_data_to_drive(drv, d, id) ==
    IF id # NoFile
    THEN [drive |-> [drv EXCEPT ![id] = to_csv(d)], new_id |-> NoFile]
    ELSE [drive |-> Append(drv, to_csv(d)), new_id |-> Len(drv) + 1]

\* ------------------------------------------------------------------ table
\* new_item in df["item"].values: numpy compares the str with every cell; a
\* cell that is a number is not equal to any str.
IsDuplicate(new_item, d) ==
    \E i \in 1..Len(d) : d[i].item.k = "str" /\ d[i].item.v = new_item

\* The validation chain without its duplicate branch.
AddCheck_NoDuplicateBranch(new_store, new_category, new_item, d) ==
    IF new_store = None THEN "no_store"
    ELSE IF new_category = None THEN "no_category"
    ELSE IF new_item = "" THEN "no_item"
    ELSE "ok"

\* The validation chain of the Add Item handler: the first warning, or "ok".
AddCheck(new_store, new_category, new_item, d) ==
    IF new_store = None THEN "no_store"
    ELSE IF new_category = None THEN "no_category"
    ELSE IF new_item = "" THEN "no_item"
    ELSE IF IsDuplicate(new_item, d) THEN "duplicate"
    ELSE "ok"

new_row(now, new_item, new_category, new_store) ==
    [timestamp |-> now, item |-> StrCell(new_item), purchased |-> FALSE,
     category |-> new_category, store |-> new_store]

\* pd.concat([df, pd.DataFrame([new_row])], ignore_index=True)
concat(d, row) == Append(d, row)

\* clicked_idx in df.index, for the RangeIndex 0..len-1 of a loaded table.
InIndex(idx, d) == idx >= 0 /\ idx < Len(d)

\* toggle_id and toggle_id.isdigit()
IsDigitParam(q) == q >= 0

\* A toggle that marks the record purchased instead of flipping the flag.
toggle_SetsTrue(d, idx) ==
    [d EXCEPT ![idx + 1].purchased = TRUE]

\* df.loc[clicked_idx, "purchased"] = not df.loc[clicked_idx, "purchased"]
toggle(d, idx) ==
    [d EXCEPT ![idx + 1].purchased = ~d[idx + 1].purchased]

\* A drop that fills the hole with the last row instead of closing it.
drop_SwapRemove(d, idx) ==
    [i \in 1..(Len(d) - 1) |-> IF i = idx + 1 THEN d[Len(d)] ELSE d[i]]

\* A drop that takes the index for a position counted from one, and so
\* removes the row after the one asked for (the first when there is none).
drop_NextRow(d, idx) ==
    LET k == IF idx + 2 <= Len(d) THEN idx + 2 ELSE 1
    IN [i \in 1..(Len(d) - 1) |-> IF i < k THEN d[i] ELSE d[i + 1]]

\* df.drop(clicked_idx)
drop(d, idx) ==
    [i \in 1..(Len(d) - 1) |-> IF i < idx + 1 THEN d[i] ELSE d[i + 1]]

\* ------------------------------------------------------------------ listing
\* The categories in Python's str order, the order sort_values and groupby
\* put the keys in.
CategoryOrder == <<"Beverages", "Dry Goods", "Frozen", "Meat/Dairy", "Vegetables">>
CategoryRank(c) == CHOOSE r \in 1..Len(CategoryOrder) : CategoryOrder[r] = c

\* df[df['store'] == store_name]: the positions of the store's rows.
df_store(d, store_name) == {i \in 1..Len(d) : d[i].store = store_name}

\* The row order with the purchased rows first (ascending=False on it).
RowBefore_PurchasedFirst(d, i, j) ==
    \/ CategoryRank(d[i].category) < CategoryRank(d[j].category)
    \/ /\ d[i].category = d[j].category
       /\ \/ d[i].purchased /\ ~d[j].purchased
          \/ d[i].purchased = d[j].purchased /\ i < j

\* The row order of sort_values(by=["category", "purchased"]): category
\* ascending, then False before True; the sort on several columns is a
\* stable lexsort, so equal keys keep the stored order.
RowBefore(d, i, j) ==
    \/ CategoryRank(d[i].category) < CategoryRank(d[j].category)
    \/ /\ d[i].category = d[j].category
       /\ \/ ~d[i].purchased /\ d[j].purchased
          \/ d[i].purchased = d[j].purchased /\ i < j

RECURSIVE sort_values(_, _)
sort_values(d, S) ==
    IF S = {} THEN <<>>
    ELSE LET m == CHOOSE i \in S : \A j \in S \ {i} : RowBefore(d, i, j)
         IN <<m>> \o sort_values(d, S \ {m})

\* One rendered line: the index label of the links and the row.
Line(d, i) == [idx |-> i - 1, row |-> d[i]]

\* A grouping that keeps the groups in the order in which their categories
\* first occur in the stored table.
RECURSIVE EncounterGroups(_, _, _)
EncounterGroups(d, sorted, todo) ==
    IF todo = {} THEN <<>>
    ELSE LET first == CHOOSE i \in todo : \A j \in todo : i <= j
             c == d[first].category
             mine == SelectSeq(sorted, LAMBDA i : d[i].category = c)
         IN <<[category |-> c,
               lines |-> [k \in 1..Len(mine) |->
                            [idx |-> mine[k] - 1, row |-> d[mine[k]]]]]>>
            \o EncounterGroups(d, sorted, {i \in todo : d[i].category # c})

groupby_EncounterOrder(d, sorted, r) ==
    EncounterGroups(d, sorted, {sorted[k] : k \in 1..Len(sorted)})

\* df_grouped.groupby("category"): one group per category present, the
\* groups in ascending key order (sort=True), each with its rows in the
\* order of df_grouped.
RECURSIVE groupby(_, _, _)
groupby(d, sorted, r) ==
    IF r > Len(CategoryOrder) THEN <<>>
    ELSE LET mine == SelectSeq(sorted, LAMBDA i : d[i].category = CategoryOrder[r])
             rest == groupby(d, sorted, r + 1)
         IN IF Len(mine) = 0 THEN rest
            ELSE <<[category |-> CategoryOrder[r],
                    lines |-> [k \in 1..Len(mine) |-> Line(d, mine[k])]]>> \o rest

\* What a store tab shows: nothing but a notice when the store has no rows,
\* otherwise the groups.
ListGrouped(d, store_name) ==
    IF df_store(d, store_name) = {} THEN <<>>
    ELSE groupby(d, sort_values(d, df_store(d, store_name)), 1)

\* ------------------------------------------------------------------ state
VARIABLES
    drive,      \* the folder: the contents of the files with the list's name
    clock,      \* datetime.now(): the number of records created so far
    pc,         \* per session: "ready", "loaded" or "stopped" (st.stop())
    df,         \* per session: the table of the script run
    file_id,    \* per session: st.session_state["file_id"]
    uploaded,   \* per session: the script run has issued an upload
    last,       \* per session: what the last handler did, and to which record
    ltable,     \* the table given to the store listing
    lstore,     \* the store tab rendered
    lview       \* the groups rendered for that tab

vars == <<drive, clock, pc, df, file_id, uploaded, last, ltable, lstore, lview>>
listvars == <<ltable, lstore, lview>>

Outcome(op, ts, idx) == [op |-> op, ts |-> ts, idx |-> idx]
NoOutcome == Outcome("none", 0, -1)

\* The folder before any session runs: the file was never created, or it was
\* put there empty (zero bytes), or with the header line only.
InitialDrives == {<<>>, <<Corrupt>>, <<HeaderOnly>>}

Init ==
    /\ drive \in InitialDrives
    /\ clock = 0
    /\ pc = [s \in Sessions |-> "ready"]
    /\ df = [s \in Sessions |-> <<>>]
    /\ file_id = [s \in Sessions |-> NoFile]
    /\ uploaded = [s \in Sessions |-> FALSE]
    /\ last = [s \in Sessions |-> NoOutcome]
    /\ ltable = <<>>
    /\ lstore = None
    /\ lview = <<>>

\* ------------------------------------------------------------------ steps
\* A script run starts: load_data() inside the try of APP START.  When it
\* raises, the except branch reports and stops the run.
Load(s) ==
    /\ pc[s] \in {"ready", "stopped"}
    /\ LET r == load_data(drive)
       IN IF r.raised
          THEN /\ pc' = [pc EXCEPT ![s] = "stopped"]
               /\ df' = [df EXCEPT ![s] = <<>>]
               /\ last' = [last EXCEPT ![s] = Outcome("load_error", 0, -1)]
               /\ UNCHANGED file_id
          ELSE /\ pc' = [pc EXCEPT ![s] = "loaded"]
               /\ df' = [df EXCEPT ![s] = r.df]
               /\ file_id' = [file_id EXCEPT ![s] = r.file_id]
               /\ last' = [last EXCEPT ![s] = NoOutcome]
    /\ uploaded' = [uploaded EXCEPT ![s] = FALSE]
    /\ UNCHANGED <<drive, clock, listvars>>

\* save_data(df): upload with the session's file id, keep a new id.
save_data(s, d) ==
    LET r == save_data_to_drive(drive, d, file_id[s])
    IN /\ drive' = r.drive
       /\ file_id' = [file_id EXCEPT ![s] =
                         IF r.new_id # NoFile THEN r.new_id ELSE file_id[s]]
       /\ uploaded' = [uploaded EXCEPT ![s] = TRUE]

\* The script run of a click on "Add Item" (no query parameters).
AddItem(s, new_store, new_category, raw) ==
    /\ pc[s] = "loaded"
    /\ LET new_item == Strip(raw)
           why == AddCheck(new_store, new_category, new_item, df[s])
       IN IF why = "ok"
          THEN /\ clock < MaxClock
               /\ clock' = clock + 1
               /\ LET d == concat(df[s], new_row(clock + 1, new_item,
                                                 new_category, new_store))
                  IN /\ df' = [df EXCEPT ![s] = d]
                     /\ save_data(s, d)
               /\ last' = [last EXCEPT ![s] =
                             Outcome("added", clock + 1, Len(df[s]))]
          ELSE /\ last' = [last EXCEPT ![s] = Outcome(why, 0, -1)]
               /\ UNCHANGED <<drive, clock, df, file_id, uploaded>>
    /\ pc' = [pc EXCEPT ![s] = "ready"]
    /\ UNCHANGED listvars

\* The same script run with the upload after the handlers' ifs instead of
\* inside them: a request that matches no row uploads the table as loaded.
Click_SaveOutsideIf(s, toggle_id, delete_id) ==
    /\ pc[s] = "loaded"
    /\ LET d == IF IsDigitParam(toggle_id) /\ InIndex(toggle_id, df[s])
                THEN toggle(df[s], toggle_id)
                ELSE IF IsDigitParam(delete_id) /\ InIndex(delete_id, df[s])
                THEN drop(df[s], delete_id)
                ELSE df[s]
       IN /\ df' = [df EXCEPT ![s] = d]
          /\ save_data(s, d)
    /\ last' = [last EXCEPT ![s] =
          IF IsDigitParam(toggle_id) /\ InIndex(toggle_id, df[s])
          THEN Outcome("toggled", df[s][toggle_id + 1].timestamp, toggle_id)
          ELSE IF IsDigitParam(delete_id) /\ InIndex(delete_id, df[s])
          THEN Outcome("deleted", df[s][delete_id + 1].timestamp, delete_id)
          ELSE Outcome(IF IsDigitParam(toggle_id) \/ IsDigitParam(delete_id)
                       THEN "miss" ELSE "noop", 0, -1)]
    /\ pc' = [pc EXCEPT ![s] = "ready"]
    /\ UNCHANGED <<clock, listvars>>

\* The same script run resolving the index on the page the link was taken
\* from: it acts on the record the page shows under the index, wherever
\* the loaded table has it, and on the index itself for any other request.
Click_ByShownRecord(s, toggle_id, delete_id) ==
    LET shown(i) == IF i >= 0 /\ i < Len(ltable)
                    THEN ltable[i + 1].timestamp ELSE 0
        pos(i) == IF \E k \in 1..Len(df[s]) : df[s][k].timestamp = shown(i)
                  THEN (CHOOSE k \in 1..Len(df[s]) :
                            df[s][k].timestamp = shown(i)) - 1
                  ELSE i
        t == pos(toggle_id)
        q == pos(delete_id)
    IN /\ pc[s] = "loaded"
       /\ IF IsDigitParam(toggle_id) /\ InIndex(t, df[s])
          THEN /\ df' = [df EXCEPT ![s] = toggle(df[s], t)]
               /\ save_data(s, toggle(df[s], t))
               /\ last' = [last EXCEPT ![s] =
                     Outcome("toggled", df[s][t + 1].timestamp, toggle_id)]
          ELSE IF IsDigitParam(delete_id) /\ InIndex(q, df[s])
          THEN /\ df' = [df EXCEPT ![s] = drop(df[s], q)]
               /\ save_data(s, drop(df[s], q))
               /\ last' = [last EXCEPT ![s] =
                     Outcome("deleted", df[s][q + 1].timestamp, delete_id)]
          ELSE /\ last' = [last EXCEPT ![s] =
                     Outcome(IF IsDigitParam(toggle_id) \/ IsDigitParam(delete_id)
                             THEN "miss" ELSE "noop", 0, -1)]
               /\ UNCHANGED <<drive, df, file_id, uploaded>>
       /\ pc' = [pc EXCEPT ![s] = "ready"]
       /\ UNCHANGED <<clock, listvars>>

\* The script run of a page request with query parameters toggle_id and
\* delete_id (either may be absent): the toggle handler, then, unless it
\* reran the script, the delete handler.
Click(s, toggle_id, delete_id) ==
    /\ pc[s] = "loaded"
    /\ IF IsDigitParam(toggle_id) /\ InIndex(toggle_id, df[s])
       THEN LET d == toggle(df[s], toggle_id)
            IN /\ df' = [df EXCEPT ![s] = d]
               /\ save_data(s, d)
               /\ last' = [last EXCEPT ![s] =
                     Outcome("toggled", df[s][toggle_id + 1].timestamp, toggle_id)]
       ELSE IF IsDigitParam(delete_id) /\ InIndex(delete_id, df[s])
       THEN LET d == drop(df[s], delete_id)
            IN /\ df' = [df EXCEPT ![s] = d]
               /\ save_data(s, d)
               /\ last' = [last EXCEPT ![s] =
                     Outcome("deleted", df[s][delete_id + 1].timestamp, delete_id)]
       ELSE /\ last' = [last EXCEPT ![s] =
                     Outcome(IF IsDigitParam(toggle_id) \/ IsDigitParam(delete_id)
                             THEN "miss" ELSE "noop", 0, -1)]
            /\ UNCHANGED <<drive, df, file_id, uploaded>>
    /\ pc' = [pc EXCEPT ![s] = "ready"]
    /\ UNCHANGED <<clock, listvars>>

\* One step of a session whose add form is given these inputs.
SessionStep(s, stores, categories, raws) ==
    \/ Load(s)
    \/ \E st \in stores, cat \in categories, raw \in raws :
          AddItem(s, st, cat, raw)
    \/ \E t \in QueryValues, d \in QueryValues : Click(s, t, d)

\* Two sessions side by side.
Next ==
    \E s \in Sessions :
        SessionStep(s, SharedStores, SharedCategories, SharedItems)

\* One session alone.
NextOne == SessionStep("A", StoreChoices, CategoryChoices, RawItems)

Spec == Init /\ [][Next]_vars
SpecOne == Init /\ [][NextOne]_vars

\* ------------------------------------------------------------------ faults
\* Calls to Drive can fail.  The app calls .execute() and next_chunk()
\* without num_retries, so the client makes one attempt per call and the
\* first failure is raised to the script.
num_retries == 0
Attempts == num_retries + 1
\* The call raises when Drive fails it `failures` times in a row.
Raises(failures) == failures >= Attempts

\* The calls of load_data: building the delegated service, files().list,
\* and the chunks of the download (made only when the file was found).
LoadCalls == {"auth", "lookup", "download"}

\* A load whose except branch reports the error and lets the run go on
\* with an empty table.
LoadWithFault_NoStop(s, call, failures) ==
    /\ pc[s] \in {"ready", "stopped"}
    /\ call = "download" => find_file_id(drive) # NoFile
    /\ IF Raises(failures)
       THEN /\ pc' = [pc EXCEPT ![s] = "loaded"]
            /\ df' = [df EXCEPT ![s] = <<>>]
            /\ last' = [last EXCEPT ![s] = Outcome("load_error", 0, -1)]
            /\ uploaded' = [uploaded EXCEPT ![s] = FALSE]
            /\ UNCHANGED <<drive, clock, file_id, listvars>>
       ELSE Load(s)

\* A script run starts while Drive fails one of the calls of load_data
\* `failures` times in a row: the exception leaves load_data before it
\* stores the file id, and the except branch of APP START stops the run.
LoadWithFault(s, call, failures) ==
    /\ pc[s] \in {"ready", "stopped"}
    /\ call = "download" => find_file_id(drive) # NoFile
    /\ IF Raises(failures)
       THEN /\ pc' = [pc EXCEPT ![s] = "stopped"]
            /\ df' = [df EXCEPT ![s] = <<>>]
            /\ last' = [last EXCEPT ![s] = Outcome("load_error", 0, -1)]
            /\ uploaded' = [uploaded EXCEPT ![s] = FALSE]
            /\ UNCHANGED <<drive, clock, file_id, listvars>>
       ELSE Load(s)

\* The Add Item run while Drive fails the upload: datetime.now() was read
\* and the row appended, the exception of save_data ends the run before
\* st.rerun(), nothing is written and the session keeps its file id.
AddItemWithFault(s, new_store, new_category, raw, failures) ==
    IF Raises(failures)
          /\ AddCheck(new_store, new_category, Strip(raw), df[s]) = "ok"
    THEN /\ pc[s] = "loaded"
         /\ df' = [df EXCEPT ![s] =
                     concat(df[s], new_row(clock + 1, Strip(raw),
                                           new_category, new_store))]
         /\ last' = [last EXCEPT ![s] = Outcome("save_error", 0, -1)]
         /\ pc' = [pc EXCEPT ![s] = "ready"]
         /\ UNCHANGED <<drive, clock, file_id, uploaded, listvars>>
    ELSE AddItem(s, new_store, new_category, raw)

\* The toggle / delete run while Drive fails the upload.
ClickWithFault(s, toggle_id, delete_id, failures) ==
    IF Raises(failures)
          /\ \/ IsDigitParam(toggle_id) /\ InIndex(toggle_id, df[s])
             \/ IsDigitParam(delete_id) /\ InIndex(delete_id, df[s])
    THEN /\ pc[s] = "loaded"
         /\ df' = [df EXCEPT ![s] =
                     IF IsDigitParam(toggle_id) /\ InIndex(toggle_id, df[s])
                     THEN toggle(df[s], toggle_id)
                     ELSE drop(df[s], delete_id)]
         /\ last' = [last EXCEPT ![s] = Outcome("save_error", 0, -1)]
         /\ pc' = [pc EXCEPT ![s] = "ready"]
         /\ UNCHANGED <<drive, clock, file_id, uploaded, listvars>>
    ELSE Click(s, toggle_id, delete_id)

\* One session alone on a Drive that can fail any call.
NextFault ==
    \/ \E call \in LoadCalls, failures \in 0..MaxFailures :
          LoadWithFault("A", call, failures)
    \/ \E st \in SharedStores, cat \in SharedCategories, raw \in RawItems,
          failures \in 0..MaxFailures :
          AddItemWithFault("A", st, cat, raw, failures)
    \/ \E t \in QueryValues, d \in QueryValues, failures \in 0..MaxFailures :
          ClickWithFault("A", t, d, failures)

SpecFault == Init /\ [][NextFault]_vars

\* ------------------------------------------------------------------ pages
\* A list that is already in the folder when the sessions start: three
\* records with the timestamps of their creation.
SeedItems == <<"milk", "eggs", "7">>
SeedCategories == <<"Vegetables", "Frozen">>
SeedTable ==
    [i \in 1..Len(SeedItems) |->
        [timestamp |-> i, item |-> StrCell(SeedItems[i]), purchased |-> FALSE,
         category |-> SeedCategories[1 + (i % 2)], store |-> "Costco"]]

InitSeeded ==
    /\ drive = <<to_csv(SeedTable)>>
    /\ clock = Len(SeedTable)
    /\ pc = [s \in Sessions |-> "ready"]
    /\ df = [s \in Sessions |-> <<>>]
    /\ file_id = [s \in Sessions |-> NoFile]
    /\ uploaded = [s \in Sessions |-> FALSE]
    /\ last = [s \in Sessions |-> NoOutcome]
    /\ ltable = <<>>
    /\ lstore = None
    /\ lview = <<>>

\* The loop over the store tabs in a script run of session s, for one
\* store: the page shows the rows of the table the run loaded, each with
\* links that carry its index label.
ShowTab(s, store_name) ==
    /\ pc[s] = "loaded"
    /\ ltable' = df[s]
    /\ lstore' = store_name
    /\ lview' = ListGrouped(df[s], store_name)
    /\ UNCHANGED <<drive, clock, pc, df, file_id, uploaded, last>>

\* What a link of the page puts in the query string: one parameter with
\* the index label of its row; a page request without a click has none.
LinkValues == {NoParam} \cup (0..MaxClock)

\* Session A looks at its page and clicks its links; session B deletes.
NextPages ==
    \/ \E s \in Sessions : Load(s)
    \/ ShowTab("A", "Costco")
    \/ \E i \in LinkValues : Click("A", i, NoParam)
    \/ \E i \in LinkValues : Click("A", NoParam, i)
    \/ \E i \in LinkValues : Click("B", NoParam, i)

SpecPages == InitSeeded /\ [][NextPages]_vars

\* ------------------------------------------------------------------ tabs
\* The store tabs as a function of the table alone: any table of at most
\* MaxListRows rows over these stores and categories, and one step per tab.
ListStores == {"Costco", "Trader Joe's"}
ListCategories == {"Vegetables", "Frozen", "Beverages"}
ListRows ==
    [timestamp : {0}, item : {StrCell("milk")}, purchased : BOOLEAN,
     category : ListCategories, store : ListStores]
ListTables == UNION {[1..n -> ListRows] : n \in 0..MaxListRows}

InitList ==
    /\ drive = <<HeaderOnly>>
    /\ clock = 0
    /\ pc = [s \in Sessions |-> "loaded"]
    /\ df = [s \in Sessions |-> <<>>]
    /\ file_id = [s \in Sessions |-> 1]
    /\ uploaded = [s \in Sessions |-> FALSE]
    /\ last = [s \in Sessions |-> NoOutcome]
    /\ ltable \in ListTables
    /\ lstore = None
    /\ lview = <<>>

\* The body of the loop over the store tabs for one store.
RenderTab(store_name) ==
    /\ lstore' = store_name
    /\ lview' = ListGrouped(ltable, store_name)
    /\ UNCHANGED <<drive, clock, pc, df, file_id, uploaded, last, ltable>>

NextList == \E store_name \in ListStores : RenderTab(store_name)

SpecList == InitList /\ [][NextList]_vars

\* ------------------------------------------------------------------ claims
\* The step is the handlers' part of a script run of session s.
HandlerStep(s) == pc[s] = "loaded" /\ pc'[s] = "ready"

\* The table a load returns from the folder as it is.
Loaded(drv) == load_data(drv).df
Timestamps(d) == [i \in 1..Len(d) |-> d[i].timestamp]
\* The timestamps of the records a listing shows.
Listed(groups) ==
    UNION {{groups[g].lines[k].row.timestamp : k \in 1..Len(groups[g].lines)} :
             g \in 1..Len(groups)}

\* C1: a load that finds no file in the folder gives the session an empty
\* table and no file id and lets the script run go on to the handlers.
C1_AbsentFileLoadsEmpty ==
    \A s \in Sessions :
        (find_file_id(drive) = NoFile /\ pc[s] # "ready")
            => (pc[s] = "loaded" /\ df[s] = <<>> /\ file_id[s] = NoFile)

\* C2: an upload leaves the file equal to the uploading session's table,
\* whatever the file held when the upload started, and adds no file: the
\* last writer wins on the whole file.
C2_LastWriterWins ==
    [][\A s \in Sessions :
          (uploaded'[s] /\ ~uploaded[s])
              => /\ Len(drive') = Len(drive)
                 /\ drive'[find_file_id(drive')] = to_csv(df'[s])]_vars

\* C2 (witness): two sessions loaded the same content, each added a record
\* of its own and saved; the file is the table of the one that saved last
\* and the other one's record is not in it.
C2_LostUpdate ==
    \E s, t \in Sessions :
        /\ s # t /\ pc[s] = "ready" /\ pc[t] = "ready"
        /\ last[s].op = "added" /\ last[t].op = "added"
        /\ last[s].ts < last[t].ts
        /\ SubSeq(df[s], 1, Len(df[s]) - 1) = SubSeq(df[t], 1, Len(df[t]) - 1)
        /\ drive[find_file_id(drive)] = to_csv(df[t])
        /\ \A i \in 1..Len(Loaded(drive)) :
              Loaded(drive)[i].timestamp # last[s].ts

\* The inputs C3 is about: a store and a category chosen, a name that is not
\* empty after trimming and is the name of no record of the loaded table.
ValidAdd(new_store, new_category, raw, d) ==
    /\ new_store # None /\ new_category # None /\ Strip(raw) # ""
    /\ \A i \in 1..Len(d) : d[i].item.v # Strip(raw)

\* C3: an add with valid inputs followed by a load returns the loaded table
\* with one more record at the end, which has the trimmed name, the chosen
\* category and store, and purchased = false.
C3_AddThenLoad ==
    [][\A s \in Sessions, st \in StoreChoices, cat \in CategoryChoices,
          raw \in RawItems :
          (HandlerStep(s) /\ ValidAdd(st, cat, raw, df[s])
              /\ AddItem(s, st, cat, raw))
              => LET t == Loaded(drive')
                     n == Len(df[s])
                 IN /\ Len(t) = n + 1
                    /\ SubSeq(Timestamps(t), 1, n) = Timestamps(df[s])
                    /\ t[n + 1].item.v = Strip(raw)
                    /\ t[n + 1].category = cat
                    /\ t[n + 1].store = st
                    /\ t[n + 1].purchased = FALSE]_vars

\* The inputs C4 is about: no store, no category, a name that is empty after
\* trimming, or a name equal to the item of a record of the loaded table.
RejectedAdd(new_store, new_category, raw, d) ==
    \/ new_store = None
    \/ new_category = None
    \/ Strip(raw) = ""
    \/ \E i \in 1..Len(d) : d[i].item = StrCell(Strip(raw))

C5_UniqueItems ==
    \A f \in 1..Len(drive) :
        \A i, j \in 1..Len(drive[f].rows) :
            i # j => drive[f].rows[i].item # drive[f].rows[j].item

AllStores == {STORES[i] : i \in 1..Len(STORES)}

\* A delete request by session s carrying index q, valid for its table:
\* the table a load then returns has exactly the other records, in their
\* order, and no store's listing of it shows the deleted record.
DeleteRemovesOne(s, q) ==
    (HandlerStep(s) /\ q < Len(df[s]) /\ Click(s, NoParam, q))
        => \A t \in {Loaded(drive')} :
              /\ Len(t) = Len(df[s]) - 1
              /\ \A i \in 1..Len(t) :
                    t[i].timestamp =
                        df[s][IF i <= q THEN i ELSE i + 1].timestamp
              /\ \A st \in AllStores :
                    df[s][q + 1].timestamp \notin Listed(ListGrouped(t, st))

\* While session s has just deleted a record, a load by another session
\* returns a table no store's listing of which shows that record.
DeletedStaysUnlisted(s, t) ==
    (/\ s # t /\ pc[s] = "ready" /\ last[s].op = "deleted"
     /\ pc[t] # "loaded" /\ pc'[t] = "loaded")
        => \A st \in AllStores :
              last[s].ts \notin Listed(ListGrouped(df'[t], st))

\* C6 (as amended): a delete with a valid index removes exactly the record
\* at that index from the persisted table, which is one shorter, and no
\* listing of the table persisted by the delete shows the record.
C6_DeleteRemovesOne ==
    [][\A s \in Sessions, q \in 0..MaxClock : DeleteRemovesOne(s, q)]_vars

\* C6 (as claimed): ... and no later listing for any store shows the
\* deleted record.
C6_DeletedNeverListedAgain ==
    [][/\ \A s \in Sessions, q \in 0..MaxClock : DeleteRemovesOne(s, q)
       /\ \A s, t \in Sessions : DeletedStaysUnlisted(s, t)]_vars

\* C6 (witness): a session deleted one of two records and the file holds
\* the other.
C6_Deleted ==
    \E s \in Sessions :
        /\ pc[s] = "ready" /\ last[s].op = "deleted" /\ uploaded[s]
        /\ Len(df[s]) = 1
        /\ drive[find_file_id(drive)] = to_csv(df[s])
        /\ df[s][1].timestamp # last[s].ts

IsExampleTable(d) ==
    /\ Len(d) = 3
    /\ \A i \in 1..3 : d[i].store = "Costco"
    /\ d[1].category = "Vegetables" /\ ~d[1].purchased
    /\ d[2].category = "Vegetables" /\ d[2].purchased
    /\ d[3].category = "Frozen" /\ ~d[3].purchased

GroupNames(groups) == [g \in 1..Len(groups) |-> groups[g].category]
\* The position of the first record of the store with the category.
FirstOf(d, store_name, c) ==
    CHOOSE i \in 1..Len(d) :
        /\ d[i].store = store_name /\ d[i].category = c
        /\ \A j \in 1..(i - 1) : ~(d[j].store = store_name /\ d[j].category = c)

\* C8 (as amended): the groups of a store's listing come in ascending order
\* of the category name; the example lists Frozen, then Vegetables.
C8_GroupsInNameOrder ==
    lstore # None =>
        /\ \A g, h \in 1..Len(lview) :
              g < h => CategoryRank(lview[g].category)
                          < CategoryRank(lview[h].category)
        /\ (IsExampleTable(ltable) /\ lstore = "Costco")
              => GroupNames(lview) = <<"Frozen", "Vegetables">>

\* C8 (as claimed): the groups come in the order in which their categories
\* first occur in the stored table; the example lists Vegetables, then
\* Frozen.
C8_GroupsInEncounterOrder ==
    lstore # None =>
        /\ \A g, h \in 1..Len(lview) :
              g < h => FirstOf(ltable, lstore, lview[g].category)
                          < FirstOf(ltable, lstore, lview[h].category)
        /\ (IsExampleTable(ltable) /\ lstore = "Costco")
              => GroupNames(lview) = <<"Vegetables", "Frozen">>

\* C8 (witness): the Costco tab of the example table has been rendered.
C8_ExampleListed ==
    /\ IsExampleTable(ltable) /\ lstore = "Costco"
    /\ Len(lview) = 2

\* C9: a store's listing shows exactly the records of that store, each once
\* and in the one group of its category; in every group the unpurchased
\* records come before the purchased ones, and records of equal purchased
\* value are in stored order.
C9_ListingFiltersGroupsSorts ==
    lstore # None =>
        LET places == {<<g, k>> \in (1..Len(lview)) \X (1..MaxListRows) :
                          k <= Len(lview[g].lines)}
            line(p) == lview[p[1]].lines[p[2]]
        IN /\ {line(p).idx + 1 : p \in places}
                 = {i \in 1..Len(ltable) : ltable[i].store = lstore}
           /\ \A p, q \in places : line(p).idx = line(q).idx => p = q
           /\ \A p \in places :
                 /\ line(p).row = ltable[line(p).idx + 1]
                 /\ line(p).row.category = lview[p[1]].category
           /\ \A g, h \in 1..Len(lview) :
                 lview[g].category = lview[h].category => g = h
           /\ \A p, q \in places :
                 (p[1] = q[1] /\ p[2] < q[2]) =>
                     /\ ~(line(p).row.purchased /\ ~line(q).row.purchased)
                     /\ line(p).row.purchased = line(q).row.purchased
                           => line(p).idx < line(q).idx

\* C9 (witness): a rendered group of two records listed against their
\* stored order, in a table that also holds a record of another store.
C9_Reordered ==
    /\ lstore = "Costco" /\ Len(ltable) = MaxListRows
    /\ \E i \in 1..Len(ltable) : ltable[i].store # lstore
    /\ \E g \in 1..Len(lview) :
          /\ Len(lview[g].lines) = 2
          /\ lview[g].lines[1].idx > lview[g].lines[2].idx

\* A request whose indices are all out of range for the table d, with at
\* least one index given.
OutOfRange(toggle_id, delete_id, d) ==
    /\ toggle_id >= Len(d) \/ delete_id >= Len(d)
    /\ toggle_id < 0 \/ toggle_id >= Len(d)
    /\ delete_id < 0 \/ delete_id >= Len(d)

\* C10: a toggle or delete request whose index is out of range for the
\* loaded table changes no record, uploads nothing, leaves the folder as it
\* was and ends as any other script run.
C10_OutOfRangeChangesNothing ==
    [][\A s \in Sessions, t \in QueryValues, q \in QueryValues :
          (HandlerStep(s) /\ OutOfRange(t, q, df[s]) /\ Click(s, t, q))
              => /\ drive' = drive
                 /\ df'[s] = df[s]
                 /\ uploaded'[s] = FALSE
                 /\ pc'[s] = "ready"]_vars

\* C10 (witness): a request with an index past the end of a table that is
\* not empty was ignored.
C10_OutOfRangeIgnored ==
    \E s \in Sessions :
        /\ pc[s] = "ready" /\ last[s].op = "miss"
        /\ Len(df[s]) > 0 /\ ~uploaded[s]
        /\ drive[find_file_id(drive)] = to_csv(df[s])

\* The folder holds a file whose content does not parse.
FileIsCorrupt(drv) == find_file_id(drv) # NoFile /\ ~drv[find_file_id(drv)].ok

\* C11: a load that finds the file with content that does not parse gives
\* the empty table, keeps the id of that file and does not stop the run;
\* an accepted add that follows overwrites that file, and the folder holds
\* as many files as before.
C11_CorruptLoadsEmpty ==
    [][\A s \in Sessions :
          /\ (FileIsCorrupt(drive) /\ Load(s))
                => /\ pc'[s] = "loaded"
                   /\ df'[s] = <<>>
                   /\ file_id'[s] = find_file_id(drive)
                   /\ drive' = drive
          /\ \A st \in StoreChoices, cat \in CategoryChoices, raw \in RawItems :
                (HandlerStep(s) /\ FileIsCorrupt(drive)
                    /\ ValidAdd(st, cat, raw, df[s]) /\ AddItem(s, st, cat, raw))
                    => /\ Len(drive') = Len(drive)
                       /\ drive'[find_file_id(drive)] = to_csv(df'[s])
                       /\ Len(df'[s]) = 1
                       /\ file_id'[s] = find_file_id(drive)]_vars

\* C11 (witness): a session has loaded the file whose content does not
\* parse and holds the empty table with the id of that file.
C11_CorruptLoaded ==
    \E s \in Sessions :
        /\ pc[s] = "loaded" /\ FileIsCorrupt(drive)
        /\ df[s] = <<>> /\ file_id[s] = find_file_id(drive)

\* C12: a request whose load raises (authentication, lookup or download
\* fails, or load_data itself raises) is stopped with the diagnostic: it
\* uploads nothing and leaves the folder as it was, and the session applies
\* no add, toggle or delete until a later request has loaded.
C12_FailedLoadHalts ==
    [][\A s \in Sessions :
          /\ \A call \in LoadCalls, n \in 0..MaxFailures :
                ((Raises(n) \/ load_data(drive).raised)
                    /\ LoadWithFault(s, call, n))
                    => /\ pc'[s] = "stopped"
                       /\ last'[s].op = "load_error"
                       /\ uploaded'[s] = FALSE
                       /\ drive' = drive
                       /\ clock' = clock
          /\ pc[s] = "stopped"
                => /\ pc'[s] \in {"stopped", "loaded"}
                   /\ uploaded'[s] = FALSE
                   /\ (pc'[s] = "stopped" => df'[s] = <<>>)]_vars

\* C12 (witness): a request was stopped by a failed load although the
\* folder holds the file with a record in it, which is still there.
C12_Halted ==
    \E s \in Sessions :
        /\ pc[s] = "stopped" /\ last[s].op = "load_error"
        /\ ~uploaded[s]
        /\ find_file_id(drive) # NoFile
        /\ Len(drive[find_file_id(drive)].rows) > 0

\* The calls C13 is about.
TransientLoadCalls == {"lookup", "download"}

\* C13: one transient failure of a lookup, download or upload, after which
\* Drive works, does not abort the request: the load still gives the table
\* of the file and the run goes on, the accepted add and the toggle or
\* delete of a valid index still upload their table.
C13_TransientFailureRetried ==
    [][\A s \in Sessions :
          /\ \A call \in TransientLoadCalls :
                (~load_data(drive).raised /\ LoadWithFault(s, call, 1))
                    => /\ pc'[s] = "loaded"
                       /\ df'[s] = Loaded(drive)
          /\ \A st \in SharedStores, cat \in SharedCategories, raw \in RawItems :
                (HandlerStep(s) /\ AddCheck(st, cat, Strip(raw), df[s]) = "ok"
                    /\ clock < MaxClock /\ AddItemWithFault(s, st, cat, raw, 1))
                    => /\ uploaded'[s]
                       /\ drive'[find_file_id(drive')] = to_csv(df'[s])
          /\ \A t \in QueryValues, d \in QueryValues :
                (HandlerStep(s) /\ (InIndex(t, df[s]) \/ InIndex(d, df[s]))
                    /\ ClickWithFault(s, t, d, 1))
                    => /\ uploaded'[s]
                       /\ drive'[find_file_id(drive')] = to_csv(df'[s])]_vars

\* The page shows the record with timestamp x under the index label i.
ShownAt(x, i) ==
    \E g \in 1..Len(lview) : \E k \in 1..Len(lview[g].lines) :
        /\ lview[g].lines[k].idx = i
        /\ lview[g].lines[k].row.timestamp = x

\* A table as the records it holds and their flags: each record by the
\* timestamp of its creation, with its purchased value.
Flags(d) == [k \in 1..Len(d) |-> <<d[k].timestamp, d[k].purchased>>]

\* C14: the index of a toggle or delete request is resolved against the
\* table loaded by the request that processes it, whatever the page the
\* link was taken from: the request changes the record at that index of
\* the loaded table, and a record the page shows under that index which is
\* elsewhere in the loaded table is left as it is.
C14_IndexResolvedOnLoad ==
    [][\A s \in Sessions, i \in 0..MaxClock :
          /\ (HandlerStep(s) /\ InIndex(i, df[s]) /\ Click(s, i, NoParam))
                => \A t \in {Loaded(drive')} :
                      /\ Flags(t) = Flags(toggle(df[s], i))
                      /\ \A x \in 1..Len(SeedTable), j \in 1..Len(df[s]) :
                            (ShownAt(x, i) /\ df[s][j].timestamp = x
                                /\ j # i + 1) => Flags(t)[j] = Flags(df[s])[j]
          /\ (HandlerStep(s) /\ InIndex(i, df[s]) /\ Click(s, NoParam, i))
                => \A t \in {Loaded(drive')} :
                      /\ Flags(t) = Flags(drop(df[s], i))
                      /\ \A x \in 1..Len(SeedTable), j \in 1..Len(df[s]) :
                            (ShownAt(x, i) /\ df[s][j].timestamp = x
                                /\ j # i + 1)
                                => \E k \in 1..Len(t) :
                                      Flags(t)[k] = Flags(df[s])[j]]_vars

\* C14 (witness): the page of session A shows record X under index i and
\* another record under a lower index j; B has deleted the record at j,
\* and A's request carrying i was then applied to a record other than X,
\* which the file holds unchanged.
C14_StaleIndexHitsOther ==
    \E i \in 1..MaxClock, x \in 1..Len(SeedTable) :
        /\ pc["A"] = "ready" /\ pc["B"] = "ready"
        /\ lstore = "Costco" /\ ShownAt(x, i)
        /\ last["B"].op = "deleted" /\ last["B"].idx < i
        /\ ShownAt(last["B"].ts, last["B"].idx)
        /\ last["A"].op \in {"toggled", "deleted"} /\ last["A"].idx = i
        /\ last["A"].ts # x
        /\ uploaded["A"] /\ drive[find_file_id(drive)] = to_csv(df["A"])
        /\ \E k \in 1..Len(df["A"]) :
              Flags(df["A"])[k] = Flags(ltable)[i + 1]

\* The index label a load gives the record created at ts: read_csv numbers
\* the rows of the file from 0.
IndexOf(d, ts) == (CHOOSE k \in 1..Len(d) : d[k].timestamp = ts) - 1

\* C15: after a delete at index i of a table of n records, the table a
\* load returns has the indices 0..n-2: a record that was at an index
\* j < i is at j, a record that was at j > i is at j - 1.
C15_DeleteCompacts ==
    [][\A s \in Sessions, i \in 0..MaxClock :
          (HandlerStep(s) /\ InIndex(i, df[s]) /\ Click(s, NoParam, i))
              => \A t \in {Loaded(drive')} :
                    /\ DOMAIN t = 1..(Len(df[s]) - 1)
                    /\ {t[k].timestamp : k \in DOMAIN t}
                          = {df[s][k].timestamp : k \in DOMAIN df[s]}
                                \ {df[s][i + 1].timestamp}
                    /\ \A j \in 0..(Len(df[s]) - 1) :
                          /\ j < i => IndexOf(t, df[s][j + 1].timestamp) = j
                          /\ j > i => IndexOf(t, df[s][j + 1].timestamp) = j - 1]_vars

\* C15 (witness): the middle one of three records has been deleted and the
\* file holds the first at index 0 and the third at index 1.
C15_MiddleDeleted ==
    \E s \in Sessions :
        /\ pc[s] = "ready" /\ last[s].op = "deleted" /\ last[s].idx = 1
        /\ uploaded[s] /\ drive[find_file_id(drive)] = to_csv(df[s])
        /\ Len(df[s]) = 2
        /\ df[s][1].timestamp < last[s].ts /\ last[s].ts < df[s][2].timestamp
        /\ IndexOf(Loaded(drive), df[s][2].timestamp) = 1

OnlyFlagFlipped(before, after, i) ==
    /\ Len(after) = Len(before)
    /\ \A k \in 1..Len(before) :
          /\ after[k].timestamp = before[k].timestamp
          /\ after[k].item = before[k].item
          /\ after[k].category = before[k].category
          /\ after[k].store = before[k].store
          /\ after[k].purchased =
                IF k = i + 1
                THEN BoolText(before[k].purchased # "True")
                ELSE before[k].purchased

\* C17: a toggle at a valid index i leaves the file with the rows it had,
\* in their order, each with its timestamp, item, category and store, and
\* with its purchased value but for the row at index i.
C17_ToggleChangesOneFlag ==
    [][\A s \in Sessions, i \in 0..MaxClock :
          (HandlerStep(s) /\ InIndex(i, df[s]) /\ Click(s, i, NoParam))
              => OnlyFlagFlipped(drive[find_file_id(drive)].rows,
                                 drive'[find_file_id(drive')].rows, i)]_vars

\* The abstract sequence of records a file stands for: its rows in order,
\* each with its texts and its flag; no record for a file without content.
AbsOf(drv) ==
    IF find_file_id(drv) = NoFile \/ ~drv[find_file_id(drv)].ok THEN <<>>
    ELSE LET rows == drv[find_file_id(drv)].rows
         IN [k \in 1..Len(rows) |->
               [timestamp |-> rows[k].timestamp, item |-> rows[k].item,
                purchased |-> (rows[k].purchased = "True"),
                category |-> rows[k].category, store |-> rows[k].store]]

\* The abstract operations: append at the end on an accepted add, flip the
\* flag at the position, remove at the position and close the gap; no
\* change on a rejected add or a position out of range.
AbsAdd(a, now, new_store, new_category, raw) ==
    IF \/ new_store = None \/ new_category = None \/ Strip(raw) = ""
       \/ \E k \in 1..Len(a) : a[k].item = Strip(raw)
    THEN a
    ELSE Append(a, [timestamp |-> now, item |-> Strip(raw),
                    purchased |-> FALSE,
                    category |-> new_category, store |-> new_store])

AbsToggle(a, i) ==
    IF i < 0 \/ i >= Len(a) THEN a
    ELSE [a EXCEPT ![i + 1].purchased = ~a[i + 1].purchased]

AbsDelete(a, i) ==
    IF i < 0 \/ i >= Len(a) THEN a
    ELSE SubSeq(a, 1, i) \o SubSeq(a, i + 2, Len(a))

\* C18: with one request at a time, every add, toggle and delete request
\* takes the file from the sequence of records it stands for to the result
\* of the abstract operation on that sequence.
C18_SequentialRefinement ==
    [][\A s \in Sessions :
          /\ \A st \in StoreChoices, cat \in CategoryChoices, raw \in RawItems :
                (HandlerStep(s) /\ AddItem(s, st, cat, raw))
                    => AbsOf(drive') = AbsAdd(AbsOf(drive), clock + 1, st, cat, raw)
          /\ \A i \in QueryValues :
                (HandlerStep(s) /\ Click(s, i, NoParam))
                    => AbsOf(drive') = AbsToggle(AbsOf(drive), i)
          /\ \A i \in QueryValues :
                (HandlerStep(s) /\ Click(s, NoParam, i))
                    => AbsOf(drive') = AbsDelete(AbsOf(drive), i)]_vars

====
